---- MODULE Spec2Model ----
(***************************************************************************)
(* Model of daily_fee_digest.py: a single sequential run of main() that    *)
(* loads the configuration, fetches the day's trade file, parses it,       *)
(* filters it to the trading session, aggregates the fees and delivers     *)
(* the digest.                                                             *)
(*                                                                         *)
(* Text is modelled as a sequence of one-character strings, so that        *)
(* strip, split, lower/upper, int() and strptime are computed character    *)
(* by character as Python computes them.  A dict is a function whose       *)
(* domain is its set of keys.  Money is counted in integer cents.          *)
(***************************************************************************)
EXTENDS Integers, Sequences, FiniteSets, TLC

VARIABLES
    pc,              \* position of the run inside main()
    args,            \* parsed command line: dry_run, date
    config,          \* result of load_config: found, fees, webhook
    process_date,    \* datetime <<Y, m, d, H, M, S>> chosen at lines 293-296
    options_config,  \* FeeConfig for "options"
    futures_config,  \* FeeConfig for "futures"
    fetch_count,     \* number of s3 get_object calls made
    fetch_outcome,   \* what get_object did: "none", "found", "no_such_key", "other_error"
    csv_content,     \* value returned by download_trade_file
    all_trades,      \* parse_trades(csv_content)
    trades,          \* filter_trades_by_session(all_trades, process_date)
    fees,            \* result of calculate_fees (locals, summaries, raised)
    summary_data,    \* grand totals of build_fee_message
    post_count,      \* number of requests.post calls made
    post_outcome,    \* what requests.post did: "none", "ok", "http_error", "exception"
    stdout,          \* operator-facing diagnostic lines printed, in order
    exit_code        \* process exit status; -1 while running

vars == <<pc, args, config, process_date, options_config, futures_config,
          fetch_count, fetch_outcome, csv_content, all_trades, trades, fees,
          summary_data, post_count, post_outcome, stdout, exit_code>>

----------------------------------------------------------------------------
(* Bounds of the model *)

MaxLen == 5          \* longest raw text drawn for parse_trades
MaxRows == 2         \* most data rows in a generated trade file

----------------------------------------------------------------------------
(* Python str and list primitives *)

Min(S) == CHOOSE x \in S : \A y \in S : x <= y
Max(S) == CHOOSE x \in S : \A y \in S : x >= y

UpperLetters == <<"A","B","C","D","E","F","G","H","I","J","K","L","M",
                  "N","O","P","Q","R","S","T","U","V","W","X","Y","Z">>
LowerLetters == <<"a","b","c","d","e","f","g","h","i","j","k","l","m",
                  "n","o","p","q","r","s","t","u","v","w","x","y","z">>
DigitChars == <<"0","1","2","3","4","5","6","7","8","9">>

IsSpace(c) == c \in {" ", "\t", "\n", "\r", "\f"}
IsDigit(c) == \E i \in 1..10 : DigitChars[i] = c
DigitVal(c) == (CHOOSE i \in 1..10 : DigitChars[i] = c) - 1

LowerChar(c) ==
    IF \E i \in 1..26 : UpperLetters[i] = c
    THEN LowerLetters[CHOOSE i \in 1..26 : UpperLetters[i] = c]
    ELSE c
UpperChar(c) ==
    IF \E i \in 1..26 : LowerLetters[i] = c
    THEN UpperLetters[CHOOSE i \in 1..26 : LowerLetters[i] = c]
    ELSE c

\* str.lower() and str.upper()
Lower(s) == [i \in 1..Len(s) |-> LowerChar(s[i])]
Upper(s) == [i \in 1..Len(s) |-> UpperChar(s[i])]

\* str.strip(): drop leading and trailing whitespace
Strip(s) ==
    LET keep == {i \in 1..Len(s) : ~IsSpace(s[i])}
    IN  IF keep = {} THEN <<>> ELSE SubSeq(s, Min(keep), Max(keep))

\* str.split(sep) for a one-character separator; "" splits to [""]
RECURSIVE Split(_, _)
Split(s, sep) ==
    LET hits == {i \in 1..Len(s) : s[i] = sep}
    IN  IF hits = {} THEN <<s>>
        ELSE <<SubSeq(s, 1, Min(hits) - 1)>>
             \o Split(SubSeq(s, Min(hits) + 1, Len(s)), sep)

\* dict(zip(header, values)): zip stops at the shorter list, a repeated key
\* keeps its last value
DictZip(header, values) ==
    LET n == Min({Len(header), Len(values)})
    IN  [k \in {header[i] : i \in 1..n} |->
            values[Max({i \in 1..n : header[i] = k})]]

\* dict.get(key, default)
Get(d, key, default) == IF key \in DOMAIN d THEN d[key] ELSE default

----------------------------------------------------------------------------
(* parse_trades *)

parse_trades_keeps_blank(content) ==
    LET lines == Split(Strip(content), "\n")
    IN  IF Len(lines) < 2 THEN <<>>
        ELSE LET header == Split(Lower(lines[1]), ",")
                 rows == Tail(lines)
             IN  [i \in 1..Len(rows) |-> DictZip(header, Split(rows[i], ","))]

parse_trades(content) ==
    LET lines == Split(Strip(content), "\n")
    IN  IF Len(lines) < 2 THEN <<>>
        ELSE LET header == Split(Lower(lines[1]), ",")
                 rows == SelectSeq(Tail(lines), LAMBDA line : Strip(line) # <<>>)
             IN  [i \in 1..Len(rows) |-> DictZip(header, Split(rows[i], ","))]

----------------------------------------------------------------------------
(* datetime: strptime(ts, "%m/%d/%Y-%H:%M:%S"), replace, timedelta, >= *)

RECURSIVE NumVal(_)
NumVal(s) == IF s = <<>> THEN 0
             ELSE 10 * NumVal(SubSeq(s, 1, Len(s) - 1)) + DigitVal(s[Len(s)])

AllDigits(s) == \A i \in 1..Len(s) : IsDigit(s[i])

\* A directive whose pattern is one or two digits with a value in lo..hi
\* (%m, %H, %M, %S)
MatchesNum(s, lo, hi) ==
    /\ Len(s) \in {1, 2}
    /\ AllDigits(s)
    /\ NumVal(s) \in lo..hi

\* %d also accepts a space followed by one digit 1-9
MatchesDay(s) ==
    \/ MatchesNum(s, 1, 31)
    \/ Len(s) = 2 /\ s[1] = " " /\ IsDigit(s[2]) /\ DigitVal(s[2]) >= 1
DayVal(s) == IF s[1] = " " THEN DigitVal(s[2]) ELSE NumVal(s)

MatchesYear(s) == Len(s) = 4 /\ AllDigits(s)

IsLeap(y) == y % 4 = 0 /\ (y % 100 # 0 \/ y % 400 = 0)
DaysInMonth(y, m) ==
    IF m = 2 THEN (IF IsLeap(y) THEN 29 ELSE 28)
    ELSE IF m \in {4, 6, 9, 11} THEN 30 ELSE 31

RECURSIVE DaysBeforeMonth(_, _)
DaysBeforeMonth(y, m) ==
    IF m = 1 THEN 0 ELSE DaysBeforeMonth(y, m - 1) + DaysInMonth(y, m - 1)
DaysBeforeYear(y) ==
    (y - 1) * 365 + ((y - 1) \div 4) - ((y - 1) \div 100) + ((y - 1) \div 400)

\* date.toordinal() and date.fromordinal()
ToOrdinal(y, m, d) == DaysBeforeYear(y) + DaysBeforeMonth(y, m) + d
FromOrdinal(n) ==
    LET y == CHOOSE yy \in 1..9999 :
                 DaysBeforeYear(yy) < n /\ n <= DaysBeforeYear(yy + 1)
        m == CHOOSE mm \in 1..12 :
                 /\ DaysBeforeYear(y) + DaysBeforeMonth(y, mm) < n
                 /\ n <= DaysBeforeYear(y) + DaysBeforeMonth(y, mm) + DaysInMonth(y, mm)
    IN  <<y, m, n - DaysBeforeYear(y) - DaysBeforeMonth(y, m)>>

\* datetime.strptime(ts, "%m/%d/%Y-%H:%M:%S"): ok = FALSE where it raises
\* ValueError (no match, unconverted data, or a field datetime() rejects)
strptime(ts) ==
    LET halves == Split(ts, "-")
        dparts == IF Len(halves) = 2 THEN Split(halves[1], "/") ELSE <<>>
        tparts == IF Len(halves) = 2 THEN Split(halves[2], ":") ELSE <<>>
        matches ==
            /\ Len(dparts) = 3 /\ Len(tparts) = 3
            /\ MatchesNum(dparts[1], 1, 12)
            /\ MatchesDay(dparts[2])
            /\ MatchesYear(dparts[3])
            /\ MatchesNum(tparts[1], 0, 23)
            /\ MatchesNum(tparts[2], 0, 59)
            /\ MatchesNum(tparts[3], 0, 61)
    IN  IF ~matches THEN [ok |-> FALSE]
        ELSE LET y  == NumVal(dparts[3])
                 mo == NumVal(dparts[1])
                 d  == DayVal(dparts[2])
                 h  == NumVal(tparts[1])
                 mi == NumVal(tparts[2])
                 sec == NumVal(tparts[3])
             IN  IF y >= 1 /\ d <= DaysInMonth(y, mo) /\ sec <= 59
                 THEN [ok |-> TRUE, dt |-> <<y, mo, d, h, mi, sec>>]
                 ELSE [ok |-> FALSE]

\* datetime >= datetime: field by field, most significant first
RECURSIVE LexGE(_, _)
LexGE(a, b) ==
    IF a = <<>> THEN TRUE
    ELSE IF Head(a) # Head(b) THEN Head(a) > Head(b)
    ELSE LexGE(Tail(a), Tail(b))

\* process_date.replace(hour=17, minute=0, second=0, microsecond=0)
\*     - timedelta(days=1)
session_start(pd) ==
    FromOrdinal(ToOrdinal(pd[1], pd[2], pd[3]) - 1) \o <<17, 0, 0>>

----------------------------------------------------------------------------
(* filter_trades_by_session *)

K_trade_source == <<"t","r","a","d","e","_","s","o","u","r","c","e">>
K_trade_datetime == <<"t","r","a","d","e","_","d","a","t","e","t","i","m","e">>
K_instrument_type ==
    <<"i","n","s","t","r","u","m","e","n","t","_","t","y","p","e">>
K_quantity == <<"q","u","a","n","t","i","t","y">>
EXPIRATION == <<"E","X","P","I","R","A","T","I","O","N">>

keeps_trade_strict(trade, start) ==
    /\ Upper(Get(trade, K_trade_source, <<>>)) # EXPIRATION
    /\ Get(trade, K_trade_datetime, <<>>) # <<>>
    /\ strptime(Get(trade, K_trade_datetime, <<>>)).ok
    /\ LET t == strptime(Get(trade, K_trade_datetime, <<>>)).dt
       IN  t # start /\ LexGE(t, start)

\* one pass of the loop body, lines 131-148: TRUE iff the trade is appended
keeps_trade(trade, start) ==
    /\ Upper(Get(trade, K_trade_source, <<>>)) # EXPIRATION
    /\ Get(trade, K_trade_datetime, <<>>) # <<>>
    /\ strptime(Get(trade, K_trade_datetime, <<>>)).ok
    /\ LexGE(strptime(Get(trade, K_trade_datetime, <<>>)).dt, start)

filter_trades_by_session(ts, pd) ==
    SelectSeq(ts, LAMBDA trade : keeps_trade(trade, session_start(pd)))

----------------------------------------------------------------------------
(* FeeConfig, get_fee_config, calculate_fees, build_fee_message *)

EmptyDict == [k \in {} |-> 0]

\* FeeConfig.total_per_contract
total_per_contract(cfg) == cfg.exchange_fee + cfg.clearing_fee + cfg.regulatory_fee

\* get_fee_config: a missing instrument or a missing fee field reads as 0
get_fee_config(cfg, instrument_type) ==
    LET f == Get(cfg.fees, instrument_type, EmptyDict)
    IN  [exchange_fee   |-> Get(f, "exchange_fee", 0),
         clearing_fee   |-> Get(f, "clearing_fee", 0),
         regulatory_fee |-> Get(f, "regulatory_fee", 0)]

\* int(str): surrounding whitespace, an optional sign, then digits that may be
\* grouped by single underscores; ok = FALSE where it raises ValueError
PyInt(s) ==
    LET t == Strip(s)
        signed == t # <<>> /\ t[1] \in {"+", "-"}
        body == IF signed THEN Tail(t) ELSE t
        wellformed ==
            /\ body # <<>>
            /\ \A i \in 1..Len(body) : IsDigit(body[i]) \/ body[i] = "_"
            /\ IsDigit(body[1]) /\ IsDigit(body[Len(body)])
            /\ \A i \in 1..(Len(body) - 1) : ~(body[i] = "_" /\ body[i + 1] = "_")
        mag == NumVal(SelectSeq(body, IsDigit))
    IN  IF ~wellformed THEN [ok |-> FALSE]
        ELSE [ok |-> TRUE, val |-> IF signed /\ t[1] = "-" THEN 0 - mag ELSE mag]

\* int(t.get("quantity", 0)): an absent key reads as the integer 0
quantity_of(t) ==
    IF K_quantity \in DOMAIN t THEN PyInt(t[K_quantity]) ELSE [ok |-> TRUE, val |-> 0]

OPTION == <<"o","p","t","i","o","n">>
OPTIONS == <<"o","p","t","i","o","n","s">>
FUTURE == <<"f","u","t","u","r","e">>
FUTURES == <<"f","u","t","u","r","e","s">>

is_options_case_sensitive(t) == Get(t, K_instrument_type, <<>>) \in {OPTION, OPTIONS}

is_options(t) == Lower(Get(t, K_instrument_type, <<>>)) \in {OPTION, OPTIONS}
is_futures(t) == Lower(Get(t, K_instrument_type, <<>>)) \in {FUTURE, FUTURES}

RECURSIVE sum_quantity(_)
sum_quantity(ts) ==
    IF ts = <<>> THEN 0 ELSE quantity_of(Head(ts)).val + sum_quantity(Tail(ts))

TradeSummary(instrument_type, trade_count, total_contracts, total_fees) ==
    [instrument_type |-> instrument_type, trade_count |-> trade_count,
     total_contracts |-> total_contracts, total_fees |-> total_fees]

calculate_fees_counts_rows(ts, oc, fc) ==
    LET options_trades == SelectSeq(ts, is_options)
        futures_trades == SelectSeq(ts, is_futures)
        raised == \E i \in 1..Len(ts) :
                      (is_options(ts[i]) \/ is_futures(ts[i])) /\ ~quantity_of(ts[i]).ok
    IN  IF raised
        THEN [raised |-> TRUE, options_trades |-> options_trades,
              futures_trades |-> futures_trades]
        ELSE [raised |-> FALSE, options_trades |-> options_trades,
              futures_trades |-> futures_trades,
              options_summary |->
                  TradeSummary("options", Len(options_trades), Len(options_trades),
                      Len(options_trades) * total_per_contract(oc)),
              futures_summary |->
                  TradeSummary("futures", Len(futures_trades), Len(futures_trades),
                      Len(futures_trades) * total_per_contract(fc))]

\* calculate_fees: raised = TRUE where an int() of line 162 or 163 raises
\* ValueError, so that no summary is returned
calculate_fees(ts, oc, fc) ==
    LET options_trades == SelectSeq(ts, is_options)
        futures_trades == SelectSeq(ts, is_futures)
        raised == \E i \in 1..Len(ts) :
                      (is_options(ts[i]) \/ is_futures(ts[i])) /\ ~quantity_of(ts[i]).ok
    IN  IF raised
        THEN [raised |-> TRUE, options_trades |-> options_trades,
              futures_trades |-> futures_trades]
        ELSE LET options_contracts == sum_quantity(options_trades)
                 futures_contracts == sum_quantity(futures_trades)
             IN  [raised |-> FALSE, options_trades |-> options_trades,
                  futures_trades |-> futures_trades,
                  options_summary |->
                      TradeSummary("options", Len(options_trades), options_contracts,
                          options_contracts * total_per_contract(oc)),
                  futures_summary |->
                      TradeSummary("futures", Len(futures_trades), futures_contracts,
                          futures_contracts * total_per_contract(fc))]

\* build_fee_message: the grand totals of lines 195-197 (summary_data)
build_fee_message(options_summary, futures_summary) ==
    [total_fees |-> options_summary.total_fees + futures_summary.total_fees,
     total_trades |-> options_summary.trade_count + futures_summary.trade_count,
     total_contracts |->
         options_summary.total_contracts + futures_summary.total_contracts]

----------------------------------------------------------------------------
(* download_trade_file and send_teams_message *)

None == [none |-> TRUE]
Some(text) == [none |-> FALSE, text |-> text]

\* download_trade_file: the decoded body, or None from either except clause
download_trade_file(outcome, body) ==
    IF outcome = "found" THEN Some(body) ELSE None

send_teams_message_skips_status(outcome) == outcome # "exception"

\* send_teams_message: True only when the POST returned and raise_for_status passed
send_teams_message(outcome) == outcome = "ok"

----------------------------------------------------------------------------
(* Inputs: command lines, configuration documents, trade files *)

RECURSIVE Join(_, _)
Join(parts, sep) ==
    IF parts = <<>> THEN <<>>
    ELSE IF Len(parts) = 1 THEN parts[1]
    ELSE parts[1] \o sep \o Join(Tail(parts), sep)

Csv(fields) == Join(fields, <<",">>)
FileOf(header, rows) == Join(<<header>> \o rows, <<"\n">>)

\* all sequences over S of length at most n
SeqsUpTo(S, n) == UNION {[1..k -> S] : k \in 0..n}

D2(n) == <<DigitChars[(n \div 10) + 1], DigitChars[(n % 10) + 1]>>
D4(n) == D2(n \div 100) \o D2(n % 100)
\* a timestamp as the trade source writes it, MM/DD/YYYY-HH:MM:SS
FormatTs(dt) ==
    D2(dt[2]) \o <<"/">> \o D2(dt[3]) \o <<"/">> \o D4(dt[1]) \o <<"-">>
    \o D2(dt[4]) \o <<":">> \o D2(dt[5]) \o <<":">> \o D2(dt[6])

\* --date values: a date, a day that does not exist, and another format
DateArgs == { <<"2","0","2","4","-","0","1","-","1","5">>,
              <<"2","0","2","4","-","0","2","-","3","0">>,
              <<"0","1","/","1","5","/","2","0","2","4">> }
\* datetime.now() when --date is omitted
Nows == { <<2024, 1, 15, 18, 30, 5>> }

\* configuration documents; fees are in cents per contract
ConfigFull ==
    [fees |-> [options |-> [exchange_fee |-> 2, clearing_fee |-> 1, regulatory_fee |-> 1],
               futures |-> [exchange_fee |-> 85, clearing_fee |-> 10, regulatory_fee |-> 5]],
     s3 |-> [bucket |-> "trades", prefix |-> "exegy/"],
     webhook |-> [url |-> "https://hooks.example/teams"]]
ConfigNoUrl ==
    [fees |-> [options |-> [exchange_fee |-> 3]],
     s3 |-> [bucket |-> "trades", prefix |-> "exegy/"],
     webhook |-> [headers |-> "none"]]
ConfigEmptyUrl ==
    [fees |-> [options |-> [exchange_fee |-> 2, clearing_fee |-> 1, regulatory_fee |-> 1],
               futures |-> [exchange_fee |-> 85, clearing_fee |-> 10, regulatory_fee |-> 5]],
     s3 |-> [bucket |-> "trades", prefix |-> "exegy/"],
     webhook |-> [url |-> ""]]
ConfigNoWebhook ==
    [fees |-> [futures |-> [clearing_fee |-> 10]],
     s3 |-> [bucket |-> "trades", prefix |-> "exegy/"]]
ConfigDocs == <<ConfigFull, ConfigNoUrl, ConfigEmptyUrl, ConfigNoWebhook>>

\* field values found in trade files
V_TRADE == <<"T","R","A","D","E">>
V_Expiration == <<"E","x","p","i","r","a","t","i","o","n">>
V_Option == <<"O","p","t","i","o","n">>
V_stock == <<"s","t","o","c","k">>
V_10 == <<"1","0">>
V_5 == <<"5">>
V_1 == <<"1">>
V_neg5 == <<"-","5">>
V_abc == <<"a","b","c">>
V_pad7 == <<" ","7"," ">>
V_bad == <<"b","a","d">>

TsStart == FormatTs(<<2024, 1, 14, 17, 0, 0>>)     \* 01/14/2024-17:00:00
TsBefore == FormatTs(<<2024, 1, 14, 16, 59, 59>>)  \* 01/14/2024-16:59:59
TsIn == FormatTs(<<2024, 1, 15, 9, 30, 0>>)        \* 01/15/2024-09:30:00
TsLeap == FormatTs(<<2024, 2, 29, 17, 0, 0>>)      \* 02/29/2024-17:00:00
TsYearEnd == FormatTs(<<2024, 12, 31, 16, 59, 59>>) \* 12/31/2024-16:59:59
TsNoSuchDay == FormatTs(<<2024, 2, 30, 18, 0, 0>>) \* 02/30/2024-18:00:00
TsUnpadded == <<"1","/","1","5","/","2","0","2","4","-","9",":","3","0",":","0">>   \* 1/15/2024-9:30:0
TsIso == <<"2","0","2","4","-","0","1","-","1","5"," ","0","9",":","3","0",":","0","0">>   \* 2024-01-15 09:30:00

\* datetime.strptime(text, "%Y-%m-%d") of line 294; the time of day is 00:00:00
strptime_date(text) ==
    LET parts == Split(text, "-")
        matches ==
            /\ Len(parts) = 3
            /\ MatchesYear(parts[1])
            /\ MatchesNum(parts[2], 1, 12)
            /\ MatchesDay(parts[3])
    IN  IF ~matches THEN [ok |-> FALSE]
        ELSE LET y == NumVal(parts[1])
                 mo == NumVal(parts[2])
                 d == DayVal(parts[3])
             IN  IF y >= 1 /\ d <= DaysInMonth(y, mo)
                 THEN [ok |-> TRUE, dt |-> <<y, mo, d, 0, 0, 0>>]
                 ELSE [ok |-> FALSE]

\* trade files of the whole run: two column orders, rows that are classified,
\* short, negative, malformed, out of session, expired or blank
Header1 == Csv(<<K_trade_datetime, K_trade_source, K_quantity, K_instrument_type>>)
Header2 == Csv(<<Upper(K_trade_datetime), Upper(K_instrument_type), Upper(K_quantity)>>)
MainRows == { Csv(<<TsStart, V_TRADE, V_10, V_Option>>),
              Csv(<<TsIn, FUTURES>>),
              Csv(<<TsIn, OPTION, V_neg5>>),
              Csv(<<TsIn, V_TRADE, V_abc, FUTURE>>),
              Csv(<<TsBefore, V_TRADE, V_5, V_Option>>),
              Csv(<<TsIn, V_Expiration, V_5, FUTURES>>),
              <<" ">> }
MainFiles ==
    {<<>>} \cup {FileOf(h, rows) : h \in {Header1, Header2},
                                   rows \in SeqsUpTo(MainRows, MaxRows)}

\* trade files for the session filter
FilterHeader1 == Csv(<<K_trade_datetime, K_trade_source>>)
FilterHeader2 == Csv(<<Upper(K_trade_source), Upper(K_trade_datetime)>>)
FilterRows == { Csv(<<TsStart, V_TRADE>>),
                Csv(<<TsBefore, V_TRADE>>),
                Csv(<<TsStart, V_Expiration>>),
                TsLeap,
                Csv(<<TsYearEnd, V_TRADE>>),
                Csv(<<TsNoSuchDay, V_TRADE>>),
                TsUnpadded,
                Csv(<<TsIso, V_TRADE>>),
                Csv(<<<<>>, V_TRADE>>),
                V_bad,
                Csv(<<V_TRADE, TsStart>>),
                Csv(<<EXPIRATION, TsIn>>),
                V_TRADE }
FilterFiles ==
    {FileOf(h, rows) : h \in {FilterHeader1, FilterHeader2},
                       rows \in SeqsUpTo(FilterRows, MaxRows)}
FilterDates == { <<2024, 1, 15, 0, 0, 0>>, <<2024, 3, 1, 0, 0, 0>>,
                 <<2025, 1, 1, 0, 0, 0>> }

\* trade files for the aggregator: every row is inside the session
FeeHeader1 == Csv(<<K_trade_datetime, K_instrument_type, K_quantity>>)
FeeHeader2 == Csv(<<Upper(K_trade_datetime), Upper(K_quantity), Upper(K_instrument_type)>>)
FeeRows == { Csv(<<TsIn, V_Option, V_10>>),
             Csv(<<TsIn, Upper(OPTIONS), V_5>>),
             Csv(<<TsIn, FUTURE, V_1>>),
             Csv(<<TsIn, FUTURES, V_neg5>>),
             Csv(<<TsIn, V_stock, V_abc>>),
             Csv(<<TsIn, <<>>, V_5>>),
             Csv(<<TsIn, OPTION, V_abc>>),
             Csv(<<TsIn, OPTIONS, <<>>>>),
             Csv(<<TsIn, FUTURES>>),
             TsIn,
             Csv(<<TsIn, V_10, V_Option>>),
             Csv(<<TsIn, V_pad7, Upper(FUTURE)>>) }
FeeFiles ==
    {FileOf(h, rows) : h \in {FeeHeader1, FeeHeader2},
                       rows \in SeqsUpTo(FeeRows, MaxRows)}

\* raw text for parse_trades: a letter, a comma, a line break and a space
ParseAlphabet == {"A", ",", "\n", " "}
ParseTexts == SeqsUpTo(ParseAlphabet, MaxLen)

----------------------------------------------------------------------------
(* main *)

Exit(code, line) ==
    /\ pc' = "done"
    /\ exit_code' = code
    /\ stdout' = Append(stdout, line)

\* an exception nothing catches: the interpreter prints the traceback and
\* exits with status 1
Uncaught == Exit(1, "Traceback")

NoFees == [raised |-> FALSE]
NoTotals == [built |-> FALSE]

Init ==
    /\ pc = "load_config"
    /\ args \in {[dry_run |-> dr, date |-> d] :
                    dr \in BOOLEAN, d \in {None} \cup {Some(t) : t \in DateArgs}}
    /\ config = [found |-> FALSE]
    /\ process_date = <<>>
    /\ options_config = get_fee_config([fees |-> EmptyDict], "options")
    /\ futures_config = get_fee_config([fees |-> EmptyDict], "futures")
    /\ fetch_count = 0
    /\ fetch_outcome = "none"
    /\ csv_content = None
    /\ all_trades = <<>>
    /\ trades = <<>>
    /\ fees = NoFees
    /\ summary_data = NoTotals
    /\ post_count = 0
    /\ post_outcome = "none"
    /\ stdout = <<>>
    /\ exit_code = -1

\* lines 285-290: load_config raises FileNotFoundError when the path is absent
LoadConfig ==
    /\ pc = "load_config"
    /\ \E found \in BOOLEAN, i \in 1..Len(ConfigDocs) :
        IF found
        THEN /\ config' = [found |-> TRUE, doc |-> ConfigDocs[i]]
             /\ pc' = "determine_date"
             /\ UNCHANGED <<stdout, exit_code>>
        ELSE /\ i = 1
             /\ config' = [found |-> FALSE]
             /\ Exit(1, "Error: Config file not found")
    /\ UNCHANGED <<args, process_date, options_config, futures_config, fetch_count,
                   fetch_outcome, csv_content, all_trades, trades, fees,
                   summary_data, post_count, post_outcome>>

\* lines 292-305: the processing date and the two fee configurations
DetermineDate ==
    /\ pc = "determine_date"
    /\ IF ~args.date.none /\ ~strptime_date(args.date.text).ok
       THEN /\ Uncaught
            /\ UNCHANGED <<process_date, options_config, futures_config>>
       ELSE /\ \E now \in Nows :
                process_date' = IF args.date.none THEN now
                                ELSE strptime_date(args.date.text).dt
            /\ options_config' = get_fee_config(config.doc, "options")
            /\ futures_config' = get_fee_config(config.doc, "futures")
            /\ pc' = "fetch"
            /\ UNCHANGED <<stdout, exit_code>>
    /\ UNCHANGED <<args, config, fetch_count, fetch_outcome, csv_content,
                   all_trades, trades, fees, summary_data, post_count, post_outcome>>

FetchIgnoresNone ==
    /\ pc = "fetch"
    /\ \E outcome \in {"found", "no_such_key", "other_error"}, body \in MainFiles :
        /\ outcome # "found" => body = <<>>
        /\ fetch_count' = fetch_count + 1
        /\ fetch_outcome' = outcome
        /\ csv_content' = Some(body)
        /\ pc' = "parse"
        /\ UNCHANGED <<stdout, exit_code>>
    /\ UNCHANGED <<args, config, process_date, options_config, futures_config,
                   all_trades, trades, fees, summary_data, post_count, post_outcome>>

\* lines 307-319: one get_object call; None ends the run with status 1
Fetch ==
    /\ pc = "fetch"
    /\ \E outcome \in {"found", "no_such_key", "other_error"}, body \in MainFiles :
        /\ outcome # "found" => body = <<>>
        /\ fetch_count' = fetch_count + 1
        /\ fetch_outcome' = outcome
        /\ csv_content' = download_trade_file(outcome, body)
        /\ IF download_trade_file(outcome, body).none
           THEN Exit(1, "No trade file found for this date. Exiting.")
           ELSE pc' = "parse" /\ UNCHANGED <<stdout, exit_code>>
    /\ UNCHANGED <<args, config, process_date, options_config, futures_config,
                   all_trades, trades, fees, summary_data, post_count, post_outcome>>

\* lines 321-322
Parse ==
    /\ pc = "parse"
    /\ all_trades' = parse_trades(csv_content.text)
    /\ pc' = "filter"
    /\ UNCHANGED <<args, config, process_date, options_config, futures_config,
                   fetch_count, fetch_outcome, csv_content, trades, fees,
                   summary_data, post_count, post_outcome, stdout, exit_code>>

\* lines 324-326
Filter ==
    /\ pc = "filter"
    /\ trades' = filter_trades_by_session(all_trades, process_date)
    /\ pc' = "calculate"
    /\ UNCHANGED <<args, config, process_date, options_config, futures_config,
                   fetch_count, fetch_outcome, csv_content, all_trades, fees,
                   summary_data, post_count, post_outcome, stdout, exit_code>>

\* lines 328-331: a ValueError of int() is caught nowhere
CalculateFees ==
    /\ pc = "calculate"
    /\ fees' = calculate_fees(trades, options_config, futures_config)
    /\ IF calculate_fees(trades, options_config, futures_config).raised
       THEN Uncaught
       ELSE pc' = "build" /\ UNCHANGED <<stdout, exit_code>>
    /\ UNCHANGED <<args, config, process_date, options_config, futures_config,
                   fetch_count, fetch_outcome, csv_content, all_trades, trades,
                   summary_data, post_count, post_outcome>>

\* lines 333-351: the grand totals and the printed fee summary
BuildMessage ==
    /\ pc = "build"
    /\ summary_data' = build_fee_message(fees.options_summary, fees.futures_summary)
    /\ stdout' = Append(stdout, "--- Fee Summary ---")
    /\ pc' = "deliver"
    /\ UNCHANGED <<args, config, process_date, options_config, futures_config,
                   fetch_count, fetch_outcome, csv_content, all_trades, trades, fees,
                   post_count, post_outcome, exit_code>>

\* config.get("webhook", {}).get("url")
webhook_url(doc) ==
    LET webhook_config == Get(doc, "webhook", EmptyDict)
    IN  IF "url" \in DOMAIN webhook_config THEN Some(webhook_config.url) ELSE None

\* "not webhook_url": None and the empty string are both falsy
falsy(url) == url.none \/ url.text = ""

DeliverPostsInDryRun ==
    /\ pc = "deliver"
    /\ IF falsy(webhook_url(config.doc))
       THEN /\ Exit(1, "Error: No webhook URL configured")
            /\ UNCHANGED <<post_count, post_outcome>>
       ELSE \E outcome \in {"ok", "http_error", "exception"} :
                /\ post_count' = post_count + 1
                /\ post_outcome' = outcome
                /\ pc' = "done"
                /\ exit_code' = IF send_teams_message(outcome) THEN 0 ELSE 1
                /\ UNCHANGED stdout
    /\ UNCHANGED <<args, config, process_date, options_config, futures_config,
                   fetch_count, fetch_outcome, csv_content, all_trades, trades, fees,
                   summary_data>>

\* lines 353-367: dry run prints and returns; otherwise the URL check and one
\* send_teams_message call decide the exit status
Deliver ==
    /\ pc = "deliver"
    /\ IF args.dry_run
       THEN /\ Exit(0, "Dry run - Teams message:")
            /\ UNCHANGED <<post_count, post_outcome>>
       ELSE IF falsy(webhook_url(config.doc))
       THEN /\ Exit(1, "Error: No webhook URL configured")
            /\ UNCHANGED <<post_count, post_outcome>>
       ELSE \E outcome \in {"ok", "http_error", "exception"} :
                /\ post_count' = post_count + 1
                /\ post_outcome' = outcome
                /\ pc' = "done"
                /\ exit_code' = IF send_teams_message(outcome) THEN 0 ELSE 1
                /\ UNCHANGED stdout
    /\ UNCHANGED <<args, config, process_date, options_config, futures_config,
                   fetch_count, fetch_outcome, csv_content, all_trades, trades, fees,
                   summary_data>>

Next ==
    \/ LoadConfig
    \/ DetermineDate
    \/ Fetch
    \/ Parse
    \/ Filter
    \/ CalculateFees
    \/ BuildMessage
    \/ Deliver

Spec == Init /\ [][Next]_vars

----------------------------------------------------------------------------
(* The stages of main from a fetched trade file on, each over its own       *)
(* family of files                                                          *)

\* the state main is in at line 321, after a --date run has fetched body
Fetched(doc, dry, pd, body) ==
    /\ pc = "parse"
    /\ args = [dry_run |-> dry, date |-> Some(<<D4(pd[1]), D2(pd[2]), D2(pd[3])>>)]
    /\ config = [found |-> TRUE, doc |-> doc]
    /\ process_date = pd
    /\ options_config = get_fee_config(doc, "options")
    /\ futures_config = get_fee_config(doc, "futures")
    /\ fetch_count = 1
    /\ fetch_outcome = "found"
    /\ csv_content = download_trade_file("found", body)
    /\ all_trades = <<>>
    /\ trades = <<>>
    /\ fees = NoFees
    /\ summary_data = NoTotals
    /\ post_count = 0
    /\ post_outcome = "none"
    /\ stdout = <<>>
    /\ exit_code = -1

InitParse == \E body \in ParseTexts :
                 Fetched(ConfigFull, TRUE, <<2024, 1, 15, 0, 0, 0>>, body)
NextParse == Parse
SpecParse == InitParse /\ [][NextParse]_vars

InitFilter == \E body \in FilterFiles, pd \in FilterDates :
                  Fetched(ConfigFull, TRUE, pd, body)
NextFilter == Parse \/ Filter
SpecFilter == InitFilter /\ [][NextFilter]_vars

InitFees == \E body \in FeeFiles, doc \in {ConfigFull, ConfigNoUrl} :
                Fetched(doc, TRUE, <<2024, 1, 15, 0, 0, 0>>, body)
NextFees == Parse \/ Filter \/ CalculateFees \/ BuildMessage
SpecFees == InitFees /\ [][NextFees]_vars

----------------------------------------------------------------------------
(* Properties of the whole run (Spec) *)

Range(f) == {f[i] : i \in DOMAIN f}
Aggregated == "options_summary" \in DOMAIN fees
TotalsBuilt == "total_fees" \in DOMAIN summary_data
UrlConfigured == config.found /\ ~falsy(webhook_url(config.doc))

\* C1 as stated: a finished dry run has made no webhook POST, and a finished
\* run without --dry-run has made exactly one.
C1_PostOncePerRun ==
    pc = "done" => IF args.dry_run THEN post_count = 0 ELSE post_count = 1

\* C1 amended: a dry run never POSTs; a run without --dry-run POSTs at most
\* once, exactly once when it gets as far as delivery (totals built and a
\* webhook URL configured), and not at all when it ends earlier.
C1_PostOnceWhenDelivering ==
    /\ args.dry_run => post_count = 0
    /\ post_count <= 1
    /\ (pc = "done" /\ ~args.dry_run) =>
           (post_count = 1 <=> (TotalsBuilt /\ UrlConfigured))
C1_Witness ==
    /\ pc = "done" /\ ~args.dry_run
    /\ post_count = 1 /\ post_outcome = "http_error"

\* C2: a finished run has exit code 0 exactly when the POST succeeded or a dry
\* run printed its message, and exit code 1 when the config file is missing,
\* the trade file is missing, the webhook URL is missing or delivery failed;
\* the missing-URL error is printed only after aggregation, never in a dry
\* run, and a missing URL does not stop the run at load time.
C2_ExitCodes ==
    /\ pc # "done" => exit_code = -1
    /\ pc = "done" =>
        /\ exit_code \in {0, 1}
        /\ exit_code = 0 <=>
               \/ post_count = 1 /\ post_outcome = "ok"
               \/ args.dry_run /\ "Dry run - Teams message:" \in Range(stdout)
        /\ ~config.found => exit_code = 1
        /\ fetch_outcome = "no_such_key" => exit_code = 1
        /\ (config.found /\ ~UrlConfigured /\ ~args.dry_run) => exit_code = 1
        /\ post_outcome \in {"http_error", "exception"} => exit_code = 1
        /\ (TotalsBuilt /\ ~UrlConfigured /\ ~args.dry_run) =>
               "Error: No webhook URL configured" \in Range(stdout)
        /\ (TotalsBuilt /\ args.dry_run) => exit_code = 0
    /\ "Error: No webhook URL configured" \in Range(stdout) =>
           /\ ~args.dry_run
           /\ fetch_outcome = "found" /\ pc = "done"
           /\ Aggregated /\ TotalsBuilt
           /\ post_count = 0 /\ exit_code = 1
C2_Witness ==
    /\ pc = "done" /\ exit_code = 1
    /\ "Error: No webhook URL configured" \in Range(stdout)
    /\ Len(trades) > 0

\* C3: once a fetch has failed (no such key, or any other failure) the run is
\* over with exit code 1: one fetch was made, nothing was parsed, filtered or
\* aggregated, and no POST was made.
C3_FailedFetchEndsRun ==
    /\ fetch_count <= 1
    /\ fetch_outcome \in {"no_such_key", "other_error"} =>
        /\ pc = "done" /\ exit_code = 1
        /\ fetch_count = 1
        /\ all_trades = <<>> /\ trades = <<>>
        /\ ~Aggregated /\ ~TotalsBuilt
        /\ post_count = 0
C3_Witness ==
    /\ fetch_outcome = "other_error" /\ pc = "done" /\ exit_code = 1

\* C4: the value download_trade_file returns after a fetch failure other than
\* a missing object differs from the value it returns for a missing object,
\* so that its caller can tell the two apart.
C4_FailuresDistinguishable ==
    fetch_outcome = "other_error" =>
        csv_content # download_trade_file("no_such_key", <<>>)

C9_Malformed(t) == K_quantity \notin DOMAIN t \/ ~PyInt(t[K_quantity]).ok
\* C9: whenever a record that was classified for aggregation has a malformed
\* quantity (absent, empty or not an integer), calculate_fees raised and the
\* run ended with status 1 and no POST; it was never counted as zero.
C9_MalformedQuantityAborts ==
    ("options_trades" \in DOMAIN fees
        /\ \E i \in 1..Len(trades) :
               (is_options(trades[i]) \/ is_futures(trades[i])) /\ C9_Malformed(trades[i]))
    => (fees.raised /\ pc = "done" /\ exit_code = 1 /\ post_count = 0)

----------------------------------------------------------------------------
(* Properties of the session filter (SpecFilter) *)

\* equality of two texts up to the case of their letters
EqualsIgnoringCase(a, b) ==
    /\ Len(a) = Len(b)
    /\ \A i \in 1..Len(a) : UpperChar(a[i]) = UpperChar(b[i])

\* seconds from 2000-01-01 00:00:00 to a datetime
Seconds(dt) ==
    (ToOrdinal(dt[1], dt[2], dt[3]) - ToOrdinal(2000, 1, 1)) * 86400
    + dt[4] * 3600 + dt[5] * 60 + dt[6]

C5_Retained(t) ==
    /\ ~EqualsIgnoringCase(Get(t, K_trade_source, <<>>), EXPIRATION)
    /\ K_trade_datetime \in DOMAIN t
    /\ t[K_trade_datetime] # <<>>
    /\ strptime(t[K_trade_datetime]).ok
    /\ Seconds(strptime(t[K_trade_datetime]).dt)
           >= Seconds(<<process_date[1], process_date[2], process_date[3], 17, 0, 0>>)
              - 86400

\* C5: the filtered list is, in input order, exactly the parsed records whose
\* trade source is not EXPIRATION in any letter case, whose timestamp is
\* present, non-empty and parses as MM/DD/YYYY-HH:MM:SS, and whose instant is
\* at or after 17:00:00 of the day before the processing date; the filter
\* never ends the run.
C5_SessionFilter ==
    pc = "calculate" =>
        /\ trades = SelectSeq(all_trades, C5_Retained)
        /\ exit_code = -1
C5_Witness ==
    /\ pc = "calculate"
    /\ process_date = <<2024, 1, 15, 0, 0, 0>>
    /\ Len(all_trades) = 2
    /\ Get(all_trades[1], K_trade_datetime, <<>>) = TsBefore
    /\ Get(all_trades[2], K_trade_datetime, <<>>) = TsStart
    /\ Get(all_trades[2], K_trade_source, <<>>) = V_TRADE
    /\ trades = <<all_trades[2]>>

----------------------------------------------------------------------------
(* Properties of the aggregator (SpecFees) *)

C6_OptionRows == {i \in 1..Len(trades) : is_options(trades[i])}
C6_FutureRows == {i \in 1..Len(trades) : is_futures(trades[i])}
RECURSIVE C6_SumOver(_)
C6_SumOver(I) ==
    IF I = {} THEN 0
    ELSE LET i == CHOOSE j \in I : TRUE
         IN  (IF K_quantity \in DOMAIN trades[i] THEN PyInt(trades[i][K_quantity]).val
              ELSE 0) + C6_SumOver(I \ {i})
C6_Rate(instrument_type) ==
    LET f == Get(config.doc.fees, instrument_type, EmptyDict)
    IN  Get(f, "exchange_fee", 0) + Get(f, "clearing_fee", 0) + Get(f, "regulatory_fee", 0)

\* C6: each class summary counts the records classified into the class, sums
\* their integer quantities, and charges that sum times the class's
\* exchange + clearing + regulatory fee; the grand totals are the sums of the
\* two summaries.
C6_Totals ==
    /\ Aggregated =>
        /\ fees.options_summary.trade_count = Cardinality(C6_OptionRows)
        /\ fees.futures_summary.trade_count = Cardinality(C6_FutureRows)
        /\ fees.options_summary.total_contracts = C6_SumOver(C6_OptionRows)
        /\ fees.futures_summary.total_contracts = C6_SumOver(C6_FutureRows)
        /\ fees.options_summary.total_fees =
               C6_SumOver(C6_OptionRows) * C6_Rate("options")
        /\ fees.futures_summary.total_fees =
               C6_SumOver(C6_FutureRows) * C6_Rate("futures")
    /\ TotalsBuilt =>
        /\ summary_data.total_trades =
               fees.options_summary.trade_count + fees.futures_summary.trade_count
        /\ summary_data.total_contracts =
               fees.options_summary.total_contracts + fees.futures_summary.total_contracts
        /\ summary_data.total_fees =
               fees.options_summary.total_fees + fees.futures_summary.total_fees
C6_Witness ==
    /\ TotalsBuilt
    /\ fees.options_summary.trade_count = 2
    /\ fees.options_summary.total_contracts = 15
    /\ fees.options_summary.total_fees = 60
    /\ summary_data.total_fees = 60

C7_IsOptions(t) ==
    /\ K_instrument_type \in DOMAIN t
    /\ \/ EqualsIgnoringCase(t[K_instrument_type], OPTION)
       \/ EqualsIgnoringCase(t[K_instrument_type], OPTIONS)
C7_IsFutures(t) ==
    /\ K_instrument_type \in DOMAIN t
    /\ \/ EqualsIgnoringCase(t[K_instrument_type], FUTURE)
       \/ EqualsIgnoringCase(t[K_instrument_type], FUTURES)

\* C7: the options bucket holds exactly the records whose instrument type is
\* "option" or "options" in any letter case, the futures bucket those with
\* "future" or "futures"; no record is in both, and a list in which every
\* record has another, empty or absent instrument type aggregates to two empty
\* summaries without an error.
C7_Partition ==
    "options_trades" \in DOMAIN fees =>
        /\ fees.options_trades = SelectSeq(trades, C7_IsOptions)
        /\ fees.futures_trades = SelectSeq(trades, C7_IsFutures)
        /\ \A i \in 1..Len(trades) : ~(C7_IsOptions(trades[i]) /\ C7_IsFutures(trades[i]))
        /\ Len(fees.options_trades) + Len(fees.futures_trades) <= Len(trades)
        /\ (\A i \in 1..Len(trades) :
                ~C7_IsOptions(trades[i]) /\ ~C7_IsFutures(trades[i]))
           => (Aggregated /\ fees.options_summary.trade_count = 0
                          /\ fees.futures_summary.trade_count = 0)
C7_Witness ==
    /\ "options_trades" \in DOMAIN fees
    /\ Len(trades) = 2
    /\ Get(trades[1], K_instrument_type, <<>>) = Upper(OPTIONS)
    /\ Get(trades[2], K_instrument_type, OPTION) = <<>>
    /\ fees.options_trades = <<trades[1]>>
    /\ fees.futures_trades = <<>>

\* C8: in every summary calculate_fees returns, and in the grand totals,
\* trade counts and contract counts are non-negative and fees are >= 0.
C8_NonNegative ==
    /\ Aggregated =>
        /\ fees.options_summary.trade_count >= 0
        /\ fees.futures_summary.trade_count >= 0
        /\ fees.options_summary.total_contracts >= 0
        /\ fees.futures_summary.total_contracts >= 0
        /\ fees.options_summary.total_fees >= 0
        /\ fees.futures_summary.total_fees >= 0
    /\ TotalsBuilt =>
        /\ summary_data.total_trades >= 0
        /\ summary_data.total_contracts >= 0
        /\ summary_data.total_fees >= 0

----------------------------------------------------------------------------
(* Properties of parse_trades (SpecParse) *)

C10_Lines == Split(csv_content.text, "\n")
C10_Blank(line) == \A i \in 1..Len(line) : IsSpace(line[i])
C10_NonBlank == {i \in 1..Len(C10_Lines) : ~C10_Blank(C10_Lines[i])}
C10_LStrip(s) ==
    LET keep == {i \in 1..Len(s) : ~IsSpace(s[i])}
    IN  IF keep = {} THEN <<>> ELSE SubSeq(s, Min(keep), Len(s))
C10_RStrip(s) ==
    LET keep == {i \in 1..Len(s) : ~IsSpace(s[i])}
    IN  IF keep = {} THEN <<>> ELSE SubSeq(s, 1, Max(keep))

\* C10 as stated: parsing yields one record per non-blank line after the first
\* line of the text (the header line).
C10_OnePerLineAfterFirst ==
    pc = "filter" =>
        Len(all_trades) =
            Cardinality({i \in C10_NonBlank : i > 1})

\* C10 amended: parsing never fails and yields, in file order, one record per
\* non-blank line after the first NON-BLANK line of the text, which is the
\* header (leading and trailing whitespace of the whole text is stripped
\* before it is split into lines); a text with no or one non-blank line yields
\* zero records.
C10_OnePerLineAfterHeader ==
    pc = "filter" =>
        IF C10_NonBlank = {} THEN all_trades = <<>>
        ELSE LET h == Min(C10_NonBlank)
                 last == Max(C10_NonBlank)
                 rows == {i \in C10_NonBlank : i > h}
                 header == Split(Lower(C10_LStrip(C10_Lines[h])), ",")
                 nth(k) == CHOOSE i \in rows :
                               Cardinality({j \in rows : j <= i}) = k
                 text(i) == IF i = last THEN C10_RStrip(C10_Lines[i])
                            ELSE C10_Lines[i]
             IN  /\ Len(all_trades) = Cardinality(rows)
                 /\ \A k \in 1..Len(all_trades) :
                        all_trades[k] = DictZip(header, Split(text(nth(k)), ","))
C10_Witness ==
    /\ pc = "filter"
    /\ Len(csv_content.text) > 0
    /\ csv_content.text[1] = "\n"
    /\ Len(all_trades) = 1
    /\ Cardinality({i \in C10_NonBlank : i > 1}) = 2

====
